---- MODULE Spec2Model ----
(***************************************************************************)
(* A model of fastapi_back/main.py: the in-memory credential store, the    *)
(* JWT session gate, the mission store with its query engine, and the      *)
(* mission simulator.  Every endpoint is declared with `def`, so FastAPI   *)
(* runs each request on a worker thread: a handler that reads a store and  *)
(* later writes it (signup, simulate_missions) is modelled one shared      *)
(* access per step, the other handlers touch the stores once and are one   *)
(* step each.                                                              *)
(***************************************************************************)
EXTENDS Integers, Sequences, FiniteSets, TLC

VARIABLES users_db, missions_db, data_db, simulations_db, frames, last, signup_ok

vars == <<users_db, missions_db, data_db, simulations_db, frames, last, signup_ok>>

\* the worker threads whose requests overlap
Threads == {1, 2}

\* Python's None
None == "None"

(***************************************************************************)
(* Password hashing (bcrypt through passlib).  A hash carries the random   *)
(* salt drawn when it was made and the digest of salt and password; the    *)
(* digest is one-way and collision-free, modelled as the pair itself.      *)
(***************************************************************************)
BcryptDigest(salt, password) == <<salt, password>>

hash_password(password, salt) ==
    [salt |-> salt, digest |-> BcryptDigest(salt, password)]

verify_password(password, hashed) ==
    BcryptDigest(hashed.salt, password) = hashed.digest

(***************************************************************************)
(* JSON web tokens.  A token is a payload (a dict, here a function whose   *)
(* domain is its set of claims) and a signature; HS256 is an ideal MAC:    *)
(* the signature of a payload under a key is matched only by the same      *)
(* payload under the same key.                                             *)
(***************************************************************************)
SECRET_KEY == "SUPER_SECRET_KEY_123"

ALGORITHM == "HS256"

HS256(payload, key) == [alg |-> ALGORITHM, msg |-> payload, key |-> key]

SubPayload(email) == [c \in {"sub"} |-> email]

EmptyPayload == [c \in {} |-> None]

\* a string that does not parse as header.payload.signature
Malformed == [wellformed |-> FALSE, payload |-> EmptyPayload,
              sig |-> HS256(EmptyPayload, None)]

create_jwt(data) ==
    [wellformed |-> TRUE, payload |-> data, sig |-> HS256(data, SECRET_KEY)]

\* what decode_jwt returns: the payload, or None (valid = FALSE)
Decoded(payload) == [valid |-> TRUE, payload |-> payload]

DecodedNone == [valid |-> FALSE, payload |-> EmptyPayload]

\* decode_jwt reading the payload without checking the signature
decode_jwt_unverified(token) ==
    IF token.wellformed THEN Decoded(token.payload) ELSE DecodedNone

decode_jwt(token) ==
    IF token.wellformed /\ token.sig = HS256(token.payload, SECRET_KEY)
    THEN Decoded(token.payload)
    ELSE DecodedNone

\* payload.get("sub")
PayloadSub(payload) == IF "sub" \in DOMAIN payload THEN payload["sub"] ELSE None

HTTPException(status, detail) == [ok |-> FALSE, status |-> status, detail |-> detail]

get_current_user(token) ==
    LET decoded == decode_jwt(token) IN
    IF ~decoded.valid
    THEN HTTPException(401, "Invalid or expired token")
    ELSE LET email == PayloadSub(decoded.payload) IN
         IF email \notin DOMAIN users_db
         THEN HTTPException(404, "User not found")
         ELSE [ok |-> TRUE, user |-> users_db[email]]

(***************************************************************************)
(* Requests in flight and responses.                                       *)
(***************************************************************************)
Idle == [op |-> "idle"]

\* a thread of the pool is free to take a request
WorkerFree == \E t \in Threads : frames[t] = Idle

\* the response sent last: its status code and its body; kind tells the
\* shape of the body ("error": the detail string of an HTTPException)
Response(kind, status, body) == [kind |-> kind, status |-> status, body |-> body]

Rejected(err) == Response("error", err.status, err.detail)

Init ==
    /\ users_db = [e \in {} |-> None]
    /\ missions_db = <<>>
    /\ data_db = <<>>
    /\ simulations_db = <<>>
    /\ frames = [t \in Threads |-> Idle]
    /\ last = Response("none", 0, None)
    /\ signup_ok = {}

(***************************************************************************)
(* signup: line 120 reads users_db, lines 123-128 hash the password and    *)
(* write the record; another thread may run in between.                    *)
(***************************************************************************)
UserRecord(user, salt) ==
    [first_name |-> user.first_name, last_name |-> user.last_name,
     email |-> user.email, password |-> hash_password(user.password, salt)]

\* users_db[email] = record
DictSet(d, k, v) == [x \in DOMAIN d \cup {k} |-> IF x = k THEN v ELSE d[x]]

signup_check(t, user) ==
    /\ frames[t] = Idle
    /\ IF user.email \in DOMAIN users_db
       THEN /\ last' = Rejected(HTTPException(400, "Email already registered"))
            /\ UNCHANGED frames
       ELSE /\ frames' = [frames EXCEPT ![t] = [op |-> "signup", user |-> user]]
            /\ UNCHANGED last
    /\ UNCHANGED <<users_db, missions_db, data_db, simulations_db, signup_ok>>

signup_store(t, salt) ==
    /\ frames[t].op = "signup"
    /\ LET user == frames[t].user IN
       /\ users_db' = DictSet(users_db, user.email, UserRecord(user, salt))
       /\ signup_ok' = signup_ok \cup {user}
    /\ last' = Response("signup", 200, "User registered successfully")
    /\ frames' = [frames EXCEPT ![t] = Idle]
    /\ UNCHANGED <<missions_db, data_db, simulations_db>>

(***************************************************************************)
(* login and me.                                                           *)
(***************************************************************************)
\* the outcome of login(credentials) in the current state
login_result(credentials) ==
    IF credentials.email \notin DOMAIN users_db
    THEN HTTPException(404, "User not found")
    ELSE IF ~verify_password(credentials.password,
                             users_db[credentials.email].password)
    THEN HTTPException(401, "Incorrect password")
    ELSE [ok |-> TRUE, access_token |-> create_jwt(SubPayload(credentials.email)),
          token_type |-> "Bearer"]

login(credentials) ==
    /\ WorkerFree
    /\ LET r == login_result(credentials) IN
       last' = IF r.ok THEN Response("login", 200, r.access_token)
               ELSE Rejected(r)
    /\ UNCHANGED <<users_db, missions_db, data_db, simulations_db, frames, signup_ok>>

MeBody(user) ==
    [email |-> user.email, first_name |-> user.first_name,
     last_name |-> user.last_name]

get_me(token) ==
    /\ WorkerFree
    /\ LET r == get_current_user(token) IN
       last' = IF r.ok THEN Response("me", 200, MeBody(r.user))
               ELSE Rejected(r)
    /\ UNCHANGED <<users_db, missions_db, data_db, simulations_db, frames, signup_ok>>

(***************************************************************************)
(* Optional request parameters: <<>> is an absent one (None), <<v>> is v.  *)
(***************************************************************************)
Absent == <<>>

Some(v) == <<v>>

(***************************************************************************)
(* Time.  An instant is a number of ticks since 2025-01-01T00:00:00, with  *)
(* TicksPerSecond ticks to the second (datetime counts microseconds).      *)
(* replace(microsecond=0).isoformat() + "Z" drops the sub-second part and  *)
(* writes the rest as fixed-width, zero-padded decimal fields, most        *)
(* significant first: here the digits of the whole seconds.  Strings are   *)
(* sequences of characters, compared as Python compares str.               *)
(***************************************************************************)
\* sub-second resolution of an instant
TicksPerSecond == 2

SecondsPerMinute == 60

\* characters of a rendered instant
IsoWidth == 4

RECURSIVE Pow10(_)

Pow10(n) == IF n = 0 THEN 1 ELSE 10 * Pow10(n - 1)

IsoFormatZ(instant) ==
    LET seconds == instant \div TicksPerSecond IN
    [i \in 1..IsoWidth |-> (seconds \div Pow10(IsoWidth - i)) % 10]

timedelta_minutes(m) == m * SecondsPerMinute * TicksPerSecond

\* a >= b on str
StrGeq(a, b) ==
    LET n == IF Len(a) < Len(b) THEN Len(a) ELSE Len(b)
        diff == {i \in 1..n : a[i] # b[i]}
    IN  IF diff = {} THEN Len(a) >= Len(b)
        ELSE LET k == CHOOSE i \in diff : \A j \in diff : i <= j IN a[k] > b[k]

(***************************************************************************)
(* Missions.  A draw is the tuple of random values one loop iteration of   *)
(* simulate_missions takes; coordinates are in millionths of a degree      *)
(* (round(..., 6)).                                                        *)
(***************************************************************************)
mission_types == {"thermal", "multispectral", "lidar"}

mission_statuses == {"pending", "processing", "completed"}

\* f"M{1000 + next_id}"
IdBase == 1000

MissionId(next_id) == <<"M", IdBase + next_id>>

AddEndTime(mission, end_time) ==
    [k \in DOMAIN mission \cup {"end_time"} |->
        IF k = "end_time" THEN end_time ELSE mission[k]]

\* MakeMission without the test of line 299
MakeMission_always_end(mission_id, draw) ==
    AddEndTime([mission_id |-> mission_id, sensor_type |-> draw.sensor_type,
                type |-> draw.sensor_type, timestamp |-> IsoFormatZ(draw.start),
                start_time |-> IsoFormatZ(draw.start), gps_lat |-> draw.gps_lat,
                gps_lon |-> draw.gps_lon, status |-> draw.status,
                progress |-> draw.progress],
               IsoFormatZ(draw.start + timedelta_minutes(draw.minutes)))

MakeMission(mission_id, draw) ==
    LET start_time == IsoFormatZ(draw.start)
        mission == [mission_id |-> mission_id,
                    sensor_type |-> draw.sensor_type,
                    type |-> draw.sensor_type,
                    timestamp |-> start_time,
                    start_time |-> start_time,
                    gps_lat |-> draw.gps_lat,
                    gps_lon |-> draw.gps_lon,
                    status |-> draw.status,
                    progress |-> draw.progress]
    IN  IF draw.status = "completed"
        THEN AddEndTime(mission,
                        IsoFormatZ(draw.start + timedelta_minutes(draw.minutes)))
        ELSE mission

\* the keys of missions_db, in insertion order
Keys(db) == [i \in 1..Len(db) |-> db[i].mission_id]

HasKey(db, mission_id) == \E i \in 1..Len(db) : db[i].mission_id = mission_id

\* missions_db[mission_id]
Lookup(db, mission_id) ==
    db[CHOOSE i \in 1..Len(db) : db[i].mission_id = mission_id]

\* missions_db[mission_id] = mission: a dict keeps a key's first position
DictPut(db, mission_id, mission) ==
    IF HasKey(db, mission_id)
    THEN [i \in 1..Len(db) |->
             IF db[i].mission_id = mission_id THEN mission ELSE db[i]]
    ELSE Append(db, mission)

(***************************************************************************)
(* upload, mission status and the simulation list.                         *)
(***************************************************************************)
\* uploads the model follows
MaxUploads == 1

\* upload_data refusing an observation of a mission missions_db does not hold
upload_data_checked(token, data) ==
    /\ WorkerFree
    /\ LET r == get_current_user(token) IN
       IF ~r.ok
       THEN /\ last' = Rejected(r)
            /\ UNCHANGED data_db
       ELSE IF ~HasKey(missions_db, data.mission_id)
       THEN /\ last' = Rejected(HTTPException(404, "Mission not found"))
            /\ UNCHANGED data_db
       ELSE /\ Len(data_db) < MaxUploads
            /\ data_db' = Append(data_db, data)
            /\ last' = Response("upload", 200, data)
    /\ UNCHANGED <<users_db, missions_db, simulations_db, frames, signup_ok>>

upload_data(token, data) ==
    /\ WorkerFree
    /\ LET r == get_current_user(token) IN
       IF r.ok
       THEN /\ Len(data_db) < MaxUploads
            /\ data_db' = Append(data_db, data)
            /\ last' = Response("upload", 200, data)
       ELSE /\ last' = Rejected(r)
            /\ UNCHANGED data_db
    /\ UNCHANGED <<users_db, missions_db, simulations_db, frames, signup_ok>>

\* the detail of the 404 names the mission_id; the model keeps the wording
get_mission_status(token, mission_id) ==
    /\ WorkerFree
    /\ LET r == get_current_user(token) IN
       last' = IF ~r.ok THEN Rejected(r)
               ELSE IF ~HasKey(missions_db, mission_id)
               THEN Rejected(HTTPException(404, "Mission not found"))
               ELSE Response("mission_status", 200, Lookup(missions_db, mission_id))
    /\ UNCHANGED <<users_db, missions_db, data_db, simulations_db, frames, signup_ok>>

get_simulations(token) ==
    /\ WorkerFree
    /\ LET r == get_current_user(token) IN
       last' = IF r.ok THEN Response("simulations", 200, simulations_db)
               ELSE Rejected(r)
    /\ UNCHANGED <<users_db, missions_db, data_db, simulations_db, frames, signup_ok>>

(***************************************************************************)
(* query: list(missions_db.values()) is one snapshot of the store; the     *)
(* four filters then narrow that list, each only when its parameter is     *)
(* given (start_date and sensor_type also when they are the empty string,  *)
(* which Python takes for false).                                          *)
(***************************************************************************)
\* tolerance = 0.001 degrees, in millionths of a degree
TOLERANCE == 1000

Abs(x) == IF x < 0 THEN -x ELSE x

Range(q) == {q[i] : i \in 1..Len(q)}

FilterStart(results, start_date) ==
    IF start_date # Absent /\ start_date[1] # <<>>
    THEN LET P(r) == /\ "timestamp" \in DOMAIN r
                     /\ r.timestamp # <<>>
                     /\ StrGeq(r.timestamp, start_date[1])
         IN  SelectSeq(results, P)
    ELSE results

\* FilterSensor comparing also when no sensor_type is given
FilterSensor_unguarded(results, sensor_type) ==
    LET P(r) == /\ "sensor_type" \in DOMAIN r
                /\ sensor_type # Absent
                /\ r.sensor_type = sensor_type[1]
    IN  SelectSeq(results, P)

FilterSensor(results, sensor_type) ==
    IF sensor_type # Absent /\ sensor_type[1] # ""
    THEN LET P(r) == "sensor_type" \in DOMAIN r /\ r.sensor_type = sensor_type[1]
         IN  SelectSeq(results, P)
    ELSE results

\* FilterLat filtering the store again instead of the results so far
FilterLat_from_store(results, lat) ==
    IF lat # Absent
    THEN LET P(r) == "gps_lat" \in DOMAIN r /\ Abs(r.gps_lat - lat[1]) <= TOLERANCE
         IN  SelectSeq(missions_db, P)
    ELSE results

FilterLat(results, lat) ==
    IF lat # Absent
    THEN LET P(r) == "gps_lat" \in DOMAIN r /\ Abs(r.gps_lat - lat[1]) <= TOLERANCE
         IN  SelectSeq(results, P)
    ELSE results

FilterLon(results, lon) ==
    IF lon # Absent
    THEN LET P(r) == "gps_lon" \in DOMAIN r /\ Abs(r.gps_lon - lon[1]) <= TOLERANCE
         IN  SelectSeq(results, P)
    ELSE results

Filters(start_date, sensor_type, lat, lon) ==
    [start_date |-> start_date, sensor_type |-> sensor_type, lat |-> lat, lon |-> lon]

query_results(db, f) ==
    FilterLon(FilterLat(FilterSensor(FilterStart(db, f.start_date),
                                     f.sensor_type), f.lat), f.lon)

QueryBody(db, f) ==
    LET results == query_results(db, f) IN
    [filters_applied |-> f, total_found |-> Len(results), results |-> results]

\* query_data taking the missions it returns out of the store
query_data_consuming(token, f) ==
    /\ WorkerFree
    /\ LET r == get_current_user(token)
           found == Range(query_results(missions_db, f))
           NotFound(m) == m \notin found
       IN  IF r.ok
           THEN /\ last' = Response("query", 200, QueryBody(missions_db, f))
                /\ missions_db' = SelectSeq(missions_db, NotFound)
           ELSE /\ last' = Rejected(r)
                /\ UNCHANGED missions_db
    /\ UNCHANGED <<users_db, data_db, simulations_db, frames, signup_ok>>

query_data(token, f) ==
    /\ WorkerFree
    /\ LET r == get_current_user(token) IN
       last' = IF r.ok THEN Response("query", 200, QueryBody(missions_db, f))
               ELSE Rejected(r)
    /\ UNCHANGED <<users_db, missions_db, data_db, simulations_db, frames, signup_ok>>

(***************************************************************************)
(* simulate: every loop iteration reads len(missions_db) (line 265) and    *)
(* later writes the mission under the ID made from it (line 304); the run  *)
(* is then numbered from len(simulations_db) (line 309) and appended       *)
(* (line 315).  No lock is held, so another thread may run between any     *)
(* two of these.                                                           *)
(***************************************************************************)
\* simulate requests the model follows
MaxRuns == 2

\* missions asked for, over all the simulate requests the model follows
MaxMissions == 2

RECURSIVE SumSeq(_)

SumSeq(q) == IF q = <<>> THEN 0 ELSE Head(q) + SumSeq(Tail(q))

Positive(n) == IF n > 0 THEN n ELSE 0

InFlight == {t \in Threads : frames[t].op = "simulate"}

RECURSIVE SumNum(_)

SumNum(ts) ==
    IF ts = {} THEN 0
    ELSE LET t == CHOOSE x \in ts : TRUE
         IN  Positive(frames[t].num) + SumNum(ts \ {t})

SimulateCalls == Len(simulations_db) + Cardinality(InFlight)

MissionsAsked ==
    SumSeq([i \in 1..Len(simulations_db) |->
               Positive(simulations_db[i].missions_generated)])
    + SumNum(InFlight)

simulate_begin(t, token, num) ==
    /\ frames[t] = Idle
    /\ LET r == get_current_user(token) IN
       IF r.ok
       THEN /\ SimulateCalls < MaxRuns
            /\ MissionsAsked + Positive(num) <= MaxMissions
            /\ frames' = [frames EXCEPT ![t] =
                   [op |-> "simulate", pc |-> IF num > 0 THEN "next_id" ELSE "simulation_id",
                    num |-> num, done |-> 0, next_id |-> 0, created_missions |-> <<>>,
                    simulation_id |-> 0]]
            /\ UNCHANGED last
       ELSE /\ last' = Rejected(r)
            /\ UNCHANGED frames
    /\ UNCHANGED <<users_db, missions_db, data_db, simulations_db, signup_ok>>

\* simulate_next_id counting the missions of its own run, not the store's
simulate_next_id_per_run(t) ==
    /\ frames[t].op = "simulate"
    /\ frames[t].pc = "next_id"
    /\ frames' = [frames EXCEPT ![t].next_id = frames[t].done + 1,
                                ![t].pc = "store"]
    /\ UNCHANGED <<users_db, missions_db, data_db, simulations_db, last, signup_ok>>

\* next_id = len(missions_db) + 1
simulate_next_id(t) ==
    /\ frames[t].op = "simulate"
    /\ frames[t].pc = "next_id"
    /\ frames' = [frames EXCEPT ![t].next_id = Len(missions_db) + 1,
                                ![t].pc = "store"]
    /\ UNCHANGED <<users_db, missions_db, data_db, simulations_db, last, signup_ok>>

\* missions_db[mission_id] = mission; created_missions.append(mission)
simulate_store(t, draw) ==
    /\ frames[t].op = "simulate"
    /\ frames[t].pc = "store"
    /\ LET mission_id == MissionId(frames[t].next_id)
           mission == MakeMission(mission_id, draw)
           done == frames[t].done + 1
       IN  /\ missions_db' = DictPut(missions_db, mission_id, mission)
           /\ frames' = [frames EXCEPT
                  ![t].created_missions = Append(@, mission),
                  ![t].done = done,
                  ![t].pc = IF done < frames[t].num THEN "next_id" ELSE "simulation_id"]
    /\ UNCHANGED <<users_db, data_db, simulations_db, last, signup_ok>>

\* "simulation_id": len(simulations_db) + 1
simulate_simulation_id(t) ==
    /\ frames[t].op = "simulate"
    /\ frames[t].pc = "simulation_id"
    /\ frames' = [frames EXCEPT ![t].simulation_id = Len(simulations_db) + 1,
                                ![t].pc = "append"]
    /\ UNCHANGED <<users_db, missions_db, data_db, simulations_db, last, signup_ok>>

\* the run's "timestamp" (utcnow) is the wall clock, which the model leaves out
SimulationResult(frame) ==
    [simulation_id |-> frame.simulation_id,
     missions_generated |-> frame.num,
     missions |-> frame.created_missions]

\* simulations_db.append(simulation_result); return simulation_result
simulate_append(t) ==
    /\ frames[t].op = "simulate"
    /\ frames[t].pc = "append"
    /\ simulations_db' = Append(simulations_db, SimulationResult(frames[t]))
    /\ last' = Response("simulate", 200, SimulationResult(frames[t]))
    /\ frames' = [frames EXCEPT ![t] = Idle]
    /\ UNCHANGED <<users_db, missions_db, data_db, signup_ok>>

(***************************************************************************)
(* Requests the clients send.  A client may present any string as its      *)
(* bearer token: a token the service issued, one signed with another key,  *)
(* one whose payload was replaced after signing, or no token at all.       *)
(***************************************************************************)
TokensOver(payloads, keys) ==
    {[wellformed |-> TRUE, payload |-> p, sig |-> HS256(q, k)] :
        p \in payloads, q \in payloads, k \in keys} \cup {Malformed}

Alice == "a@x.com"

Bob == "b@x.com"

\* an address that never signs up
Nobody == "z@x.com"

Payloads == {SubPayload(Alice), SubPayload(Bob), SubPayload(Nobody), EmptyPayload}

Tokens == TokensOver(Payloads, {SECRET_KEY, "OTHER_KEY"})

\* one token of each kind: issued to a user, signed for an address that is not
\* registered, signed without a subject, signed with another key, altered
\* after signing, and not a token
FewTokens ==
    {create_jwt(SubPayload(Alice)), create_jwt(SubPayload(Nobody)),
     create_jwt(EmptyPayload),
     [wellformed |-> TRUE, payload |-> SubPayload(Alice),
      sig |-> HS256(SubPayload(Alice), "OTHER_KEY")],
     [wellformed |-> TRUE, payload |-> SubPayload(Alice),
      sig |-> HS256(SubPayload(Nobody), SECRET_KEY)],
     Malformed}

Passwords == {"pw1", "pw2"}

Credentials == [email : {Alice, Bob, Nobody}, password : Passwords]

AliceSignup ==
    [first_name |-> "Alice", last_name |-> "A", email |-> Alice, password |-> "pw1"]

Signups ==
    [first_name : {"Alice", "Mallory"}, last_name : {"A"}, email : {Alice, Bob},
     password : Passwords]

Salts == {"salt1", "salt2"}

UploadInputs ==
    [mission_id : {MissionId(99)}, timestamp : {IsoFormatZ(0)},
     gps_lat : {5000000}, gps_lon : {-74000000}, gps_alt : {None},
     sensor_type : {"lidar"}, data_url : {None}]

MissionIdInputs == {MissionId(1), MissionId(99)}

DrawsOver(sensors, statuses, starts, lats, lons, minutes) ==
    [sensor_type : sensors, status : statuses, start : starts, gps_lat : lats,
     gps_lon : lons, progress : {50}, minutes : minutes]

\* the longest completed mission, in minutes
MaxMinutes == 2

PlainDraws ==
    DrawsOver({"lidar"}, {"completed"}, {0}, {5000000}, {-74000000}, {1})

PlainFilters ==
    {Filters(Absent, s, Absent, Absent) : s \in {Absent, Some("lidar")}}

NumInputs == (-1)..MaxMissions

(***************************************************************************)
(* The service: every handler, any thread, any request.                    *)
(***************************************************************************)
SimulateSteps(t, draws) ==
    \/ simulate_next_id(t)
    \/ \E draw \in draws : simulate_store(t, draw)
    \/ simulate_simulation_id(t)
    \/ simulate_append(t)

Next ==
    \/ \E c \in [email : {Alice, Nobody}, password : Passwords] : login(c)
    \/ \E token \in FewTokens : get_me(token)
    \/ \E token \in FewTokens, data \in UploadInputs : upload_data(token, data)
    \/ \E token \in FewTokens, id \in MissionIdInputs :
           get_mission_status(token, id)
    \/ \E token \in FewTokens, f \in PlainFilters : query_data(token, f)
    \/ \E token \in FewTokens : get_simulations(token)
    \/ \E t \in Threads :
           \/ signup_check(t, AliceSignup)
           \/ signup_store(t, "salt1")
           \/ \E token \in FewTokens, num \in NumInputs : simulate_begin(t, token, num)
           \/ SimulateSteps(t, PlainDraws)

Spec == Init /\ [][Next]_vars

(***************************************************************************)
(* The credential store and the session gate alone, with several signup    *)
(* requests for the same address.                                          *)
(***************************************************************************)
AuthNext ==
    \/ \E c \in Credentials : login(c)
    \/ \E token \in Tokens : get_me(token)
    \/ \E t \in Threads :
           \/ \E user \in Signups : signup_check(t, user)
           \/ \E salt \in Salts : signup_store(t, salt)

AuthSpec == Init /\ [][AuthNext]_vars

(***************************************************************************)
(* The service with its requests served one at a time: a request is taken  *)
(* only when no other is in flight.                                        *)
(***************************************************************************)
NoneInFlight == \A t \in Threads : frames[t] = Idle

SerialNext ==
    \/ NoneInFlight /\ \E c \in [email : {Alice, Nobody}, password : Passwords] : login(c)
    \/ NoneInFlight /\ \E token \in FewTokens : get_me(token)
    \/ NoneInFlight /\ \E token \in FewTokens, data \in UploadInputs :
                           upload_data(token, data)
    \/ NoneInFlight /\ \E token \in FewTokens, id \in MissionIdInputs :
                           get_mission_status(token, id)
    \/ NoneInFlight /\ \E token \in FewTokens, f \in PlainFilters : query_data(token, f)
    \/ NoneInFlight /\ \E token \in FewTokens : get_simulations(token)
    \/ NoneInFlight /\ \E t \in Threads : signup_check(t, AliceSignup)
    \/ NoneInFlight /\ \E t \in Threads, token \in FewTokens, num \in NumInputs :
                           simulate_begin(t, token, num)
    \/ \E t \in Threads : signup_store(t, "salt1")
    \/ \E t \in Threads : SimulateSteps(t, PlainDraws)

SerialSpec == Init /\ [][SerialNext]_vars

(***************************************************************************)
(* The simulator, one request at a time, with missions of every status,    *)
(* starting within and across whole seconds and lasting 1..MaxMinutes.     *)
(***************************************************************************)
AliceToken == create_jwt(SubPayload(Alice))

\* instants one tick into the first and into the second second of the year
TimeDraws ==
    DrawsOver({"lidar"}, mission_statuses, {1, TicksPerSecond + 1},
              {5000000}, {-74000000}, 1..MaxMinutes)

TimeNext ==
    \/ NoneInFlight /\ \E t \in Threads : signup_check(t, AliceSignup)
    \/ NoneInFlight /\ \E t \in Threads, num \in 1..MaxMissions :
                           simulate_begin(t, AliceToken, num)
    \/ NoneInFlight /\ \E id \in MissionIdInputs : get_mission_status(AliceToken, id)
    \/ \E t \in Threads : signup_store(t, "salt1")
    \/ \E t \in Threads : SimulateSteps(t, TimeDraws)

TimeSpec == Init /\ [][TimeNext]_vars

(***************************************************************************)
(* The mission store and the query engine, one request at a time, with     *)
(* missions that differ in every field a filter reads.                     *)
(***************************************************************************)
GeoDraw(sensor_type, start, gps_lat, gps_lon) ==
    [sensor_type |-> sensor_type, status |-> "pending", start |-> start,
     gps_lat |-> gps_lat, gps_lon |-> gps_lon, progress |-> 50, minutes |-> 1]

\* four draws that every filter below splits, each filter differently
GeoDraws ==
    {GeoDraw("lidar", 1, 5000000, -74002000),
     GeoDraw("lidar", TicksPerSecond + 1, 5002000, -74000000),
     GeoDraw("thermal", TicksPerSecond + 1, 5000000, -74000000),
     GeoDraw("thermal", 1, 5002000, -74000000)}

\* each parameter absent or given
StartDateInputs == {Absent, Some(IsoFormatZ(TicksPerSecond))}

SensorInputs == {Absent, Some("lidar")}

LatInputs == {Absent, Some(5000500)}

LonInputs == {Absent, Some(-74000500)}

\* every combination, and two with "", which is given and false in Python
QueryFilters ==
    {Filters(d, s, la, lo) : d \in StartDateInputs, s \in SensorInputs,
                             la \in LatInputs, lo \in LonInputs}
    \cup {Filters(Some(<<>>), Some(""), Absent, Some(-74000500)),
          Filters(Some(<<>>), Some("lidar"), Some(5000500), Absent)}

\* the queries the clients of this specification send
QueryInputs ==
    {Filters(Absent, Absent, Absent, Absent),
     Filters(Absent, Some("lidar"), Absent, Absent),
     Filters(Absent, Absent, Some(5000500), Absent),
     Filters(Absent, Some("lidar"), Some(5000500), Absent),
     Filters(Some(<<>>), Some(""), Absent, Some(-74000500)),
     Filters(Some(IsoFormatZ(TicksPerSecond)), Some("lidar"), Some(5000500),
             Some(-74000500))}

QueryNext ==
    \/ NoneInFlight /\ \E t \in Threads : signup_check(t, AliceSignup)
    \/ NoneInFlight /\ \E t \in Threads, num \in 1..MaxMissions :
                           simulate_begin(t, AliceToken, num)
    \/ NoneInFlight /\ \E token \in {AliceToken, Malformed}, f \in QueryInputs :
                           query_data(token, f)
    \/ \E t \in Threads : signup_store(t, "salt1")
    \/ \E t \in Threads : SimulateSteps(t, GeoDraws)

QuerySpec == Init /\ [][QueryNext]_vars

(***************************************************************************)
(* The simulator and the readers of its stores with requests overlapping,  *)
(* and missions that differ, so that a mission written over another shows. *)
(***************************************************************************)
RaceDraws ==
    DrawsOver({"lidar"}, {"pending", "completed"}, {0}, {5000000}, {-74000000}, {1})

NoFilter == Filters(Absent, Absent, Absent, Absent)

RaceNext ==
    \/ \E id \in MissionIdInputs : get_mission_status(AliceToken, id)
    \/ query_data(AliceToken, NoFilter)
    \/ get_simulations(AliceToken)
    \/ \E t \in Threads :
           \/ signup_check(t, AliceSignup)
           \/ signup_store(t, "salt1")
           \/ \E num \in 1..MaxMissions : simulate_begin(t, AliceToken, num)
           \/ SimulateSteps(t, RaceDraws)

RaceSpec == Init /\ [][RaceNext]_vars

(***************************************************************************)
(* The observation log beside the mission store, one request at a time:    *)
(* observations uploaded for a mission the store holds and for one it      *)
(* does not.                                                               *)
(***************************************************************************)
UploadRequests ==
    [mission_id : MissionIdInputs, timestamp : {IsoFormatZ(0)},
     gps_lat : {5000000}, gps_lon : {-74000000}, gps_alt : {None},
     sensor_type : {"lidar"}, data_url : {None}]

UploadNext ==
    \/ NoneInFlight /\ \E t \in Threads : signup_check(t, AliceSignup)
    \/ NoneInFlight /\ \E t \in Threads, num \in 1..MaxMissions :
                           simulate_begin(t, AliceToken, num)
    \/ NoneInFlight /\ \E token \in {AliceToken, Malformed}, data \in UploadRequests :
                           upload_data(token, data)
    \/ NoneInFlight /\ \E id \in MissionIdInputs : get_mission_status(AliceToken, id)
    \/ NoneInFlight /\ query_data(AliceToken, NoFilter)
    \/ \E t \in Threads : signup_store(t, "salt1")
    \/ \E t \in Threads : SimulateSteps(t, PlainDraws)

UploadSpec == Init /\ [][UploadNext]_vars

(***************************************************************************)
(* C2.  A protected request (me, upload, mission_status, query, simulate,  *)
(* simulations) whose token is not validly signed with SECRET_KEY, or      *)
(* whose subject is no key of users_db, is answered with an error and      *)
(* leaves users_db, missions_db, data_db and simulations_db as they were.  *)
(***************************************************************************)
ValidlySigned(token) ==
    token.wellformed /\ token.sig = HS256(token.payload, SECRET_KEY)

Resolves(token) ==
    /\ ValidlySigned(token)
    /\ "sub" \in DOMAIN token.payload
    /\ token.payload["sub"] \in DOMAIN users_db

ProtectedCall(token) ==
    \/ get_me(token)
    \/ \E data \in UploadInputs : upload_data(token, data)
    \/ \E id \in MissionIdInputs : get_mission_status(token, id)
    \/ \E f \in PlainFilters : query_data(token, f)
    \/ \E t \in Threads, num \in NumInputs : simulate_begin(t, token, num)
    \/ get_simulations(token)

C2_GateClosed ==
    [][\A token \in FewTokens :
          (~Resolves(token) /\ ProtectedCall(token))
              => /\ last'.kind = "error"
                 /\ last'.status \in {401, 404}
                 /\ UNCHANGED <<users_db, missions_db, data_db, simulations_db>>]_vars

(***************************************************************************)
(* C9.  Filters compose as an intersection: in every state of the mission  *)
(* store and for every combination of start_date, sensor_type, lat and     *)
(* lon, the combined query returns exactly the stored missions that each   *)
(* single-filter query returns, in whatever order the four filters are     *)
(* applied, and total_found is the number of those missions.               *)
(***************************************************************************)
FilterNames == {"start_date", "sensor_type", "lat", "lon"}

\* f with every filter but k absent
Only(f, k) == [x \in FilterNames |-> IF x = k THEN f[x] ELSE Absent]

ApplyFilter(results, f, k) ==
    CASE k = "start_date" -> FilterStart(results, f.start_date)
      [] k = "sensor_type" -> FilterSensor(results, f.sensor_type)
      [] k = "lat" -> FilterLat(results, f.lat)
      [] k = "lon" -> FilterLon(results, f.lon)

FilterOrders ==
    {o \in [1..4 -> FilterNames] : \A i, j \in 1..4 : o[i] = o[j] => i = j}

ApplyInOrder(db, f, o) ==
    ApplyFilter(ApplyFilter(ApplyFilter(ApplyFilter(db, f, o[1]), f, o[2]), f, o[3]),
                f, o[4])

\* the stored missions that every single-filter query of f returns
Intersection(db, f) ==
    LET single == [k \in FilterNames |-> Range(query_results(db, Only(f, k)))]
        InAll(r) == \A k \in FilterNames : r \in single[k]
    IN  SelectSeq(db, InAll)

C9_FiltersIntersect ==
    \A f \in QueryFilters :
        LET body == QueryBody(missions_db, f)
            both == Intersection(missions_db, f)
        IN  /\ body.results = both
            /\ body.total_found = Len(both)
            /\ \A o \in FilterOrders : ApplyInOrder(missions_db, f, o) = both

\* a query with two filters has answered with one of two stored missions:
\* both have the sensor asked for, one lies within the tolerance of lat
C9_Witness ==
    /\ last.kind = "query"
    /\ last.status = 200
    /\ Len(missions_db) = 2
    /\ last.body.filters_applied = Filters(Absent, Some("lidar"), Some(5000500), Absent)
    /\ last.body.total_found = 1
    /\ Len(query_results(missions_db, Only(last.body.filters_applied, "lat"))) = 1
    /\ Len(query_results(missions_db, Only(last.body.filters_applied, "sensor_type"))) = 2
    /\ last.body.results = query_results(missions_db, last.body.filters_applied)

(***************************************************************************)
(* C10.  query is read-only and repeatable: a query request changes none   *)
(* of users_db, missions_db, data_db and simulations_db, and its answer is *)
(* the one the same request gets from the stores it leaves behind, so a    *)
(* second identical request with no write in between gets the same         *)
(* total_found and results.                                                *)
(***************************************************************************)
C10_QueryReadOnly ==
    [][\A token \in {AliceToken, Malformed}, f \in QueryInputs :
          query_data(token, f)
              => /\ UNCHANGED <<users_db, missions_db, data_db, simulations_db>>
                 /\ last'.kind = "query" =>
                        /\ last'.body.results = QueryBody(missions_db', f).results
                        /\ last'.body.total_found = QueryBody(missions_db', f).total_found
                        /\ last'.body.total_found = Len(last'.body.results)]_vars

\* a query has answered with one of two stored missions
C10_Witness ==
    /\ last.kind = "query"
    /\ last.body.total_found = 1
    /\ Len(missions_db) = 2

(***************************************************************************)
(* C8.  Every mission in missions_db and in every run of simulations_db    *)
(* has an end_time exactly when its status is completed, and that end_time *)
(* is strictly later than its start_time.                                  *)
(***************************************************************************)
StoredMissions ==
    Range(missions_db)
    \cup UNION {Range(simulations_db[i].missions) : i \in 1..Len(simulations_db)}

StrictlyLater(a, b) == StrGeq(a, b) /\ a # b

C8_EndTimeIffCompleted ==
    \A m \in StoredMissions :
        /\ "end_time" \in DOMAIN m <=> m.status = "completed"
        /\ "end_time" \in DOMAIN m => StrictlyLater(m.end_time, m.start_time)

\* a logged run holds a completed mission and one that is not
C8_Witness ==
    \E i \in 1..Len(simulations_db) :
        /\ \E m \in Range(simulations_db[i].missions) :
               m.status = "completed" /\ "end_time" \in DOMAIN m /\ m \in Range(missions_db)
        /\ \E m \in Range(simulations_db[i].missions) :
               m.status = "processing" /\ m \in Range(missions_db)

\* a token that does not resolve was refused while the stores held data
C2_Witness ==
    /\ last.kind = "error"
    /\ last.body = "Invalid or expired token"
    /\ Len(missions_db) > 0
    /\ Len(data_db) > 0
    /\ Len(simulations_db) > 0

(***************************************************************************)
(* C1.  Once every simulate request has finished, missions_db holds one    *)
(* mission per mission generated, under the IDs M1001..M(1000+total) in    *)
(* order, and every mission a run generated is still the one stored under  *)
(* its ID.                                                                 *)
(***************************************************************************)
Generated ==
    SumSeq([i \in 1..Len(simulations_db) |-> Len(simulations_db[i].missions)])

C1_DenseUniqueIds ==
    NoneInFlight =>
        /\ Keys(missions_db) = [i \in 1..Generated |-> MissionId(i)]
        /\ \A i \in 1..Len(simulations_db) :
               \A m \in Range(simulations_db[i].missions) :
                   /\ HasKey(missions_db, m.mission_id)
                   /\ Lookup(missions_db, m.mission_id) = m

(***************************************************************************)
(* C3.  The session resolver fails in one way only: any two tokens that    *)
(* do not resolve get the same status and the same detail.                 *)
(***************************************************************************)
C3_UniformFailure ==
    \A t1 \in Tokens, t2 \in Tokens :
        (~get_current_user(t1).ok /\ ~get_current_user(t2).ok)
            => get_current_user(t1) = get_current_user(t2)

(***************************************************************************)
(* C4.  For a registered email, login succeeds exactly with a password     *)
(* that a successful signup of that email supplied, and fails with 401     *)
(* otherwise; for an email that is not registered it fails with 404.       *)
(***************************************************************************)
C4_LoginIffSignupPassword ==
    \A c \in Credentials :
        LET r == login_result(c) IN
        IF c.email \in DOMAIN users_db
        THEN /\ r.ok <=> \E u \in signup_ok :
                             u.email = c.email /\ u.password = c.password
             /\ ~r.ok => r.status = 401
        ELSE ~r.ok /\ r.status = 404

(***************************************************************************)
(* C5.  A signup for an email that is already a key of users_db fails      *)
(* with 400 and changes nothing, and no step changes or removes a record   *)
(* that users_db holds.                                                    *)
(***************************************************************************)
C5_RecordsImmutable ==
    [][/\ \A t \in Threads, user \in Signups :
              (user.email \in DOMAIN users_db /\ signup_check(t, user))
                  => last'.status = 400 /\ UNCHANGED users_db
       /\ \A e \in DOMAIN users_db :
              e \in DOMAIN users_db' /\ users_db'[e] = users_db[e]]_vars

(***************************************************************************)
(* C6.  signup is atomic: of the signup requests for one email at most     *)
(* one is answered with success, and the record stored for that email is   *)
(* the one that request asked for.                                         *)
(***************************************************************************)
Registers(user, record) ==
    /\ record.email = user.email
    /\ record.first_name = user.first_name
    /\ record.last_name = user.last_name
    /\ verify_password(user.password, record.password)

C6_SignupAtomic ==
    \A u \in signup_ok :
        /\ \A v \in signup_ok : v.email = u.email => v = u
        /\ u.email \in DOMAIN users_db
        /\ Registers(u, users_db[u.email])

(***************************************************************************)
(* C7.  The token a successful login issues resolves to the record of the  *)
(* email that logged in, and me answers with that email and its names; a   *)
(* token that is malformed, altered, signed with another key or names no   *)
(* registered subject resolves to the one Unauthenticated failure (401).   *)
(***************************************************************************)
C7_TokenRoundTrip ==
    /\ \A c \in Credentials :
           login_result(c).ok =>
               LET r == get_current_user(login_result(c).access_token) IN
               /\ r.ok
               /\ r.user = users_db[c.email]
               /\ MeBody(r.user).email = c.email
    /\ \A token \in Tokens :
           ~Resolves(token) =>
               /\ ~get_current_user(token).ok
               /\ get_current_user(token).status = 401

(***************************************************************************)
(* C11.  With the simulate requests served one after another, the k-th     *)
(* mission created has the ID M(1000+k): in every state missions_db holds  *)
(* exactly the IDs M1001..M(1000+n) in order, n being the number of        *)
(* missions generated so far, and every step that changes missions_db      *)
(* appends one mission under the next ID and keeps the earlier ones, so no *)
(* ID is used twice.                                                       *)
(***************************************************************************)
RECURSIVE SumCreated(_)

\* missions the requests in flight have generated
SumCreated(ts) ==
    IF ts = {} THEN 0
    ELSE LET t == CHOOSE x \in ts : TRUE
         IN  Len(frames[t].created_missions) + SumCreated(ts \ {t})

GeneratedSoFar == Generated + SumCreated(InFlight)

C11_SequentialIds ==
    /\ [](Keys(missions_db) = [i \in 1..GeneratedSoFar |-> MissionId(i)])
    /\ [][missions_db' # missions_db =>
              /\ Len(missions_db') = Len(missions_db) + 1
              /\ SubSeq(missions_db', 1, Len(missions_db)) = missions_db
              /\ missions_db'[Len(missions_db')].mission_id
                     = MissionId(Len(missions_db) + 1)]_vars

\* two requests, one after the other, have created M1001 and M1002
C11_Witness ==
    /\ NoneInFlight
    /\ Len(simulations_db) = 2
    /\ Keys(simulations_db[1].missions) = <<MissionId(1)>>
    /\ Keys(simulations_db[2].missions) = <<MissionId(2)>>
    /\ Keys(missions_db) = <<MissionId(1), MissionId(2)>>

(***************************************************************************)
(* C12.  Storing a mission under an ID that missions_db already holds      *)
(* fails: the mission stored before stays in place and the request is      *)
(* answered with an error.                                                 *)
(***************************************************************************)
C12_DuplicateIdRefused ==
    [][\A t \in Threads, draw \in RaceDraws :
          (/\ frames[t].op = "simulate"
           /\ frames[t].pc = "store"
           /\ HasKey(missions_db, MissionId(frames[t].next_id))
           /\ simulate_store(t, draw))
              => /\ Lookup(missions_db', MissionId(frames[t].next_id))
                        = Lookup(missions_db, MissionId(frames[t].next_id))
                 /\ last'.kind = "error"]_vars

(***************************************************************************)
(* C13.  Every simulate request appends one run to simulations_db, and     *)
(* the i-th run of the log has simulation_id i, so no two runs share one,  *)
(* also when simulate requests overlap.                                    *)
(***************************************************************************)
C13_SimulationIdsCount ==
    /\ \A i \in 1..Len(simulations_db) : simulations_db[i].simulation_id = i
    /\ \A i, j \in 1..Len(simulations_db) :
           simulations_db[i].simulation_id = simulations_db[j].simulation_id => i = j

(***************************************************************************)
(* C14.  A request is atomic for the readers running beside it: while a    *)
(* simulate request has stored some but not all of its missions, a query   *)
(* returns none of them and mission_status finds none of them.             *)
(***************************************************************************)
\* the IDs a request in flight has stored, while more are still to come
PartRun(t) ==
    IF frames[t].op = "simulate" /\ frames[t].done < frames[t].num
    THEN Range(Keys(frames[t].created_missions))
    ELSE {}

C14_ReadersSeeWholeRuns ==
    [][\A t \in Threads :
          /\ \A f \in PlainFilters :
                 (query_data(AliceToken, f) /\ last'.kind = "query")
                     => Range(Keys(last'.body.results)) \cap PartRun(t) = {}
          /\ \A id \in MissionIdInputs :
                 (get_mission_status(AliceToken, id) /\ last'.kind = "mission_status")
                     => id \notin PartRun(t)]_vars

(***************************************************************************)
(* C15.  A stored mission never changes: when mission_status(id) has       *)
(* answered with a record and the next answer is again to                  *)
(* mission_status(id), whatever the other requests did in between, it is   *)
(* the same record; and mission_status of an ID that no request was ever   *)
(* given answers 404.                                                      *)
(***************************************************************************)
\* no request has stored, or is about to store, a mission under id
NeverAllocated(id) ==
    /\ ~HasKey(missions_db, id)
    /\ \A t \in Threads :
           frames[t].op = "simulate" /\ frames[t].pc = "store"
               => MissionId(frames[t].next_id) # id

C15_MissionsImmutable ==
    [][\A id \in MissionIdInputs :
          get_mission_status(AliceToken, id) =>
              /\ (last.kind = "mission_status" /\ last.body.mission_id = id)
                     => last' = last
              /\ NeverAllocated(id) => last'.kind = "error" /\ last'.status = 404]_vars

(***************************************************************************)
(* C19.  simulations_db and missions_db agree in every state: every        *)
(* mission of every logged run is the record missions_db holds under its   *)
(* ID, and missions_db holds as many missions as the logged runs list.     *)
(***************************************************************************)
C19_LogMatchesStore ==
    /\ \A i \in 1..Len(simulations_db) :
           \A m \in Range(simulations_db[i].missions) :
               /\ HasKey(missions_db, m.mission_id)
               /\ Lookup(missions_db, m.mission_id) = m
    /\ Len(missions_db) = Generated

(***************************************************************************)
(* C18.  Every run of simulations_db lists as many missions as its         *)
(* missions_generated says, for every num the handler takes, zero and      *)
(* negative ones included.                                                 *)
(***************************************************************************)
C18_CountMatchesMissions ==
    \A i \in 1..Len(simulations_db) :
        simulations_db[i].missions_generated = Len(simulations_db[i].missions)

(***************************************************************************)
(* C20.  A token stays valid: after login has answered with a token, that  *)
(* token resolves to a user record, and no step of any request changes     *)
(* the record it resolves to.                                              *)
(***************************************************************************)
C20_TokenStaysValid ==
    [][last.kind = "login" =>
          \E token \in Tokens :
              /\ token = last.body
              /\ get_current_user(token).ok
              /\ get_current_user(token)' = get_current_user(token)]_vars

(***************************************************************************)
(* C16.  A query with no filter returns the whole store: its results are   *)
(* the missions of missions_db, each once, in insertion order, and         *)
(* total_found is their number; and a filter whose parameter is absent     *)
(* removes nothing from the list it is applied to.                         *)
(***************************************************************************)
C16_NoFilterFullStore ==
    /\ [](LET body == QueryBody(missions_db, NoFilter) IN
           /\ body.results = missions_db
           /\ body.total_found = Len(missions_db)
           /\ \A i, j \in 1..Len(body.results) :
                  body.results[i].mission_id = body.results[j].mission_id => i = j)
    /\ [](\A f \in QueryFilters, k \in FilterNames :
             f[k] = Absent =>
                 /\ ApplyFilter(missions_db, f, k) = missions_db
                 /\ ApplyFilter(query_results(missions_db, f), f, k)
                        = query_results(missions_db, f))
    /\ [][(query_data(AliceToken, NoFilter) /\ last'.kind = "query") =>
              /\ last'.body.results = missions_db
              /\ last'.body.total_found = Len(missions_db)]_vars

\* a query with no filter has answered with both missions of the store,
\* which differ in sensor, position and start
C16_Witness ==
    /\ last.kind = "query"
    /\ last.body.filters_applied = NoFilter
    /\ last.body.total_found = 2
    /\ last.body.results = missions_db
    /\ missions_db[1].sensor_type # missions_db[2].sensor_type
    /\ missions_db[1].gps_lat # missions_db[2].gps_lat

(***************************************************************************)
(* C17.  An upload with a token that resolves appends the observation to   *)
(* data_db and nothing else: users_db, missions_db and simulations_db stay *)
(* as they were, the answer is a success whether or not missions_db holds  *)
(* the observation's mission_id, and mission_status, query and the next    *)
(* mission ID are what they were before.                                   *)
(***************************************************************************)
C17_UploadOnlyAppends ==
    [][\A data \in UploadRequests :
          (Resolves(AliceToken) /\ upload_data(AliceToken, data)) =>
              /\ data_db' = Append(data_db, data)
              /\ UNCHANGED <<users_db, missions_db, simulations_db>>
              /\ last' = Response("upload", 200, data)
              /\ \A id \in MissionIdInputs :
                     /\ HasKey(missions_db', id) <=> HasKey(missions_db, id)
                     /\ HasKey(missions_db, id) =>
                            Lookup(missions_db', id) = Lookup(missions_db, id)
              /\ QueryBody(missions_db', NoFilter) = QueryBody(missions_db, NoFilter)
              /\ data \notin Range(QueryBody(missions_db', NoFilter).results)
              /\ MissionId(Len(missions_db') + 1) = MissionId(Len(missions_db) + 1)]_vars

\* an observation was uploaded for a mission the store holds
C17_Witness ==
    /\ last.kind = "upload"
    /\ Len(data_db) = 1
    /\ data_db[1].mission_id = MissionId(1)
    /\ HasKey(missions_db, MissionId(1))
    /\ Len(missions_db) = 1

====
